---- MODULE Spec2Model ----
(***************************************************************************)
(* The Tornado adapter of webargs (src/src/webargs/tornadoparser.py): the  *)
(* two multidict proxies, the JSON body loader, the location loaders and   *)
(* the error handlers, as operators over Python values, and the calls made *)
(* on one request as actions.                                              *)
(*                                                                         *)
(* Python values are records tagged by t.  A field name is used by one     *)
(* kind of value only, so two values of different kinds are unequal.       *)
(***************************************************************************)
EXTENDS Integers, Sequences, FiniteSets, TLC

VARIABLES req, schema, parser, result

vars == <<req, schema, parser, result>>

(***************************************************************************)
(* Bounds of the model.                                                    *)
(***************************************************************************)
\* Raw occurrences (list elements, scalar values) one request mapping carries.
MaxOcc == 2

(***************************************************************************)
(* Python values.                                                          *)
(***************************************************************************)
\* core.missing, the sentinel of "no value at this location".
Missing == [t |-> "missing"]

\* Python's None.
None == [t |-> "none"]

\* A key the raw mapping does not hold (dict.get falls to its default).
Absent == [t |-> "absent"]

\* str: a sequence of code points.
Str(c) == [t |-> "str", chars |-> c]

\* bytes: a sequence of integers 0..255.
Bytes(b) == [t |-> "bytes", bytes |-> b]

\* tornado.httputil.HTTPFile, an uploaded file (neither str nor bytes).
HTTPFile(n) == [t |-> "file", filename |-> n]

\* list and tuple.
List(xs) == [t |-> "list", items |-> xs]

Tuple(xs) == [t |-> "tuple", items |-> xs]

\* http.cookies.Morsel: an object with a value attribute.
Morsel(v) == [t |-> "cookie", value |-> v]

\* int, where None is an alternative.
Int_(n) == [t |-> "int", n |-> n]

\* tornado.concurrent.Future, the body of a streaming request.
Future == [t |-> "future"]

IsSeq(v) == v.t \in {"list", "tuple"}

IsStrOrBytes(v) == v.t \in {"str", "bytes"}

(***************************************************************************)
(* tornado.escape._unicode: str and None unchanged, bytes decoded as       *)
(* UTF-8.  The decoder covers the one- and two-byte forms; every other     *)
(* lead byte the model uses (0xFF) is invalid in UTF-8.                    *)
(***************************************************************************)
RECURSIVE Utf8Decode(_)
Utf8Decode(b) ==
    IF b = <<>> THEN [ok |-> TRUE, chars |-> <<>>]
    ELSE IF b[1] < 128
    THEN LET r == Utf8Decode(Tail(b))
         IN  [ok |-> r.ok, chars |-> IF r.ok THEN <<b[1]>> \o r.chars ELSE <<>>]
    ELSE IF /\ b[1] >= 194 /\ b[1] <= 223
            /\ Len(b) >= 2 /\ b[2] >= 128 /\ b[2] <= 191
    THEN LET r == Utf8Decode(Tail(Tail(b)))
         IN  [ok |-> r.ok,
              chars |-> IF r.ok
                        THEN <<(b[1] - 192) * 64 + (b[2] - 128)>> \o r.chars
                        ELSE <<>>]
    ELSE [ok |-> FALSE, chars |-> <<>>]

\* Whether _unicode(v) raises UnicodeDecodeError.
Undecodable(v) == v.t = "bytes" /\ ~Utf8Decode(v.bytes).ok

\* _unicode(v) where it does not raise.
_unicode(v) == IF v.t = "bytes" THEN Str(Utf8Decode(v.bytes).chars) ELSE v

(***************************************************************************)
(* Outcomes of a call: a returned value, or a raised exception with the    *)
(* function that raised it.                                                *)
(***************************************************************************)
Return(v) == [t |-> "return", value |-> v]

Raise(e, site) == [t |-> "raise", exc |-> e, via |-> site]

\* An exception of Python itself (IndexError, TypeError), not an HTTPError.
RaiseBuiltin(name) == [t |-> "raise_builtin", name |-> name]

NoMessages == [k \in {} |-> <<>>]

\* HTTPError.__init__: messages and headers are popped from the keyword
\* arguments with defaults {} and None; the rest goes to tornado's HTTPError.
HTTPError(status_code, log_message, reason, messages, headers) ==
    [status_code |-> status_code, log_message |-> log_message,
     reason |-> reason, messages |-> messages, headers |-> headers]

\* The length of the slice s[:n].
Min(a, b) == IF a <= b THEN a ELSE b

\* value[:n] of bytes, str, list or tuple.
Slice(v, n) ==
    CASE v.t = "bytes" -> Bytes(SubSeq(v.bytes, 1, Min(n, Len(v.bytes))))
      [] v.t = "str"   -> Str(SubSeq(v.chars, 1, Min(n, Len(v.chars))))
      [] v.t = "list"  -> List(SubSeq(v.items, 1, Min(n, Len(v.items))))
      [] v.t = "tuple" -> Tuple(SubSeq(v.items, 1, Min(n, Len(v.items))))

\* The slice length of the error message.
PreviewLimit == 40

\* f"Invalid unicode in {key}: {value[:40]!r}", raised with status 400 from
\* __getitem__ itself: no messages, no headers, no reason.
InvalidUnicode(key, value) ==
    Raise(HTTPError(400,
                    [t |-> "invalid_unicode", key |-> key,
                     preview |-> Slice(value, PreviewLimit)],
                    None, NoMessages, None),
          "__getitem__")

(***************************************************************************)
(* The raw mappings.  A mapping is a function from its key names to a raw  *)
(* value or Absent.                                                        *)
(***************************************************************************)
\* The field names of the schema.
Keys == {"name", "works"}

\* dict.get(key, default)
Get(data, key, default) ==
    IF key \in DOMAIN data /\ data[key] # Absent THEN data[key] ELSE default

\* bool(value): an empty str, bytes, list or tuple is false.
Truthy(v) ==
    CASE v.t = "str"   -> v.chars # <<>>
      [] v.t = "bytes" -> v.bytes # <<>>
      [] IsSeq(v)      -> v.items # <<>>
      [] v.t = "none"  -> FALSE
      [] OTHER         -> TRUE

\* What "for v in value" yields: the items of a list or tuple, the one
\* character strings of a str.  The raw values of the requests below are
\* lists, tuples and str; no other value is iterated.
Iter(value) ==
    CASE IsSeq(value)     -> value.items
      [] value.t = "str"  -> [i \in 1..Len(value.chars) |-> Str(<<value.chars[i]>>)]
      [] OTHER            -> <<>>

(***************************************************************************)
(* MultiDictProxy._makeproxy of webargs.core: the proxy holds the raw      *)
(* mapping and the schema's multi-valued keys.                             *)
(***************************************************************************)
_makeproxy(multidict, sch, cls) ==
    [cls |-> cls, data |-> multidict, multiple_keys |-> sch.multiple]

(***************************************************************************)
(* WebArgsTornadoMultiDictProxy.__getitem__                                *)
(***************************************************************************)
\* The list comprehension of the multi-valued branch.  The name value is
\* still the raw value when the handler formats its message.
GetItemMultiple(key, value) ==
    LET vs == Iter(value)
    IN  IF \E i \in 1..Len(vs) : Undecodable(vs[i])
        THEN InvalidUnicode(key, value)
        ELSE Return(List([i \in 1..Len(vs) |->
                            IF IsStrOrBytes(vs[i]) THEN _unicode(vs[i]) ELSE vs[i]]))

\* "if value and isinstance(value, (list, tuple)): value = value[0]"
TakeFirstUnguarded(value) ==
    IF IsSeq(value)
    THEN IF value.items = <<>> THEN RaiseBuiltin("IndexError")
         ELSE Return(value.items[1])
    ELSE Return(value)

TakeLast(value) ==
    IF Truthy(value) /\ IsSeq(value)
    THEN Return(value.items[Len(value.items)]) ELSE Return(value)

TakeFirst(value) ==
    IF Truthy(value) /\ IsSeq(value) THEN Return(value.items[1]) ELSE Return(value)

\* The scalar branch: the first occurrence, decoded when it is str or bytes.
GetItemScalar(key, value0) ==
    LET first == TakeFirst(value0)
    IN  IF first.t # "return" THEN first
        ELSE LET value == first.value
             IN  IF IsStrOrBytes(value)
                 THEN IF Undecodable(value) THEN InvalidUnicode(key, value)
                      ELSE Return(_unicode(value))
                 ELSE Return(value)

\* A lookup that consumes the occurrence it returns.
GetItemPopping(self, key) ==
    LET value == Get(self.data, key, Missing)
    IN  [out |-> IF value = Missing THEN Return(Missing)
                 ELSE IF key \in self.multiple_keys
                 THEN GetItemMultiple(key, value)
                 ELSE GetItemScalar(key, value),
         data |-> IF value # Missing /\ IsSeq(value) /\ value.items # <<>>
                  THEN [self.data EXCEPT ![key] = [value EXCEPT !.items = Tail(@)]]
                  ELSE self.data]

\* The outcome of proxy[key], and the raw mapping as the call leaves it.
WebArgsTornadoMultiDictProxy_getitem(self, key) ==
    LET value == Get(self.data, key, Missing)
    IN  [out |-> IF value = Missing THEN Return(Missing)
                 ELSE IF key \in self.multiple_keys
                 THEN GetItemMultiple(key, value)
                 ELSE GetItemScalar(key, value),
         data |-> self.data]

(***************************************************************************)
(* WebArgsTornadoCookiesMultiDictProxy.__getitem__                         *)
(***************************************************************************)
\* A lookup that forgets to unwrap the cookie object.
CookiesGetItemNoUnwrap(self, key) ==
    LET cookie == Get(self.data, key, Missing)
    IN  [out |-> IF cookie = Missing THEN Return(Missing)
                 ELSE IF key \in self.multiple_keys
                 THEN Return(List(<<cookie>>))
                 ELSE Return(cookie),
         data |-> self.data]

WebArgsTornadoCookiesMultiDictProxy_getitem(self, key) ==
    LET cookie == Get(self.data, key, Missing)
    IN  [out |-> IF cookie = Missing THEN Return(Missing)
                 ELSE IF key \in self.multiple_keys
                 THEN Return(List(<<cookie.value>>))
                 ELSE Return(cookie.value),
         data |-> self.data]

(***************************************************************************)
(* TornadoParser.load_<location>                                           *)
(***************************************************************************)
load_querystring(r, sch) ==
    _makeproxy(r.query_arguments, sch, "WebArgsTornadoMultiDictProxy")

load_form(r, sch) ==
    _makeproxy(r.body_arguments, sch, "WebArgsTornadoMultiDictProxy")

load_headers(r, sch) ==
    _makeproxy(r.headers, sch, "WebArgsTornadoMultiDictProxy")

load_cookies(r, sch) ==
    _makeproxy(r.cookies, sch, "WebArgsTornadoCookiesMultiDictProxy")

load_files(r, sch) ==
    _makeproxy(r.files, sch, "WebArgsTornadoMultiDictProxy")

\* The locations read through a proxy, and the request attribute of each.
ProxyLocations == {"query", "form", "headers", "cookies", "files"}

Attr(loc) ==
    CASE loc = "query"   -> "query_arguments"
      [] loc = "form"    -> "body_arguments"
      [] loc = "headers" -> "headers"
      [] loc = "cookies" -> "cookies"
      [] loc = "files"   -> "files"

\* The dispatch of webargs.core from a location name to its loader.
Load(loc, r, sch) ==
    CASE loc = "query"   -> load_querystring(r, sch)
      [] loc = "form"    -> load_form(r, sch)
      [] loc = "headers" -> load_headers(r, sch)
      [] loc = "cookies" -> load_cookies(r, sch)
      [] loc = "files"   -> load_files(r, sch)

\* proxy[key], by the class of the proxy.
ProxyGetItem(proxy, key) ==
    IF proxy.cls = "WebArgsTornadoCookiesMultiDictProxy"
    THEN WebArgsTornadoCookiesMultiDictProxy_getitem(proxy, key)
    ELSE WebArgsTornadoMultiDictProxy_getitem(proxy, key)

(***************************************************************************)
(* The JSON body.  core.is_json and core.parse_json are not part of the    *)
(* adapter's file; they are modelled on token sequences: a media type is   *)
(* JSON when, without its parameters, it is application/json or            *)
(* application/<anything>+json.                                            *)
(***************************************************************************)
\* mimetype.split(";")[0]
BeforeParams(tokens) ==
    IF \E i \in 1..Len(tokens) : tokens[i] = ";"
    THEN SubSeq(tokens, 1, (CHOOSE i \in 1..Len(tokens) :
                               /\ tokens[i] = ";"
                               /\ \A j \in 1..(i - 1) : tokens[j] # ";") - 1)
    ELSE tokens

is_json(mimetype) ==
    LET m == BeforeParams(mimetype.tokens)
    IN  /\ mimetype.tokens # <<>>
        /\ \/ m = <<"application", "/", "json">>
           \/ /\ Len(m) >= 5
              /\ m[1] = "application" /\ m[2] = "/"
              /\ m[Len(m) - 1] = "+" /\ m[Len(m)] = "json"

\* req.headers.get("Content-Type") is None, or is not a JSON media type.
is_json_request(r) ==
    LET content_type == Get(r.headers, "Content-Type", None)
    IN  content_type # None /\ is_json(content_type)

\* A JSON object, as its set of <<name, value>> pairs.
Dict(entries) == [t |-> "dict", entries |-> entries]

\* core.parse_json on the documents of the model: null, {} and {"k": "v"}
\* parse, anything else raises json.JSONDecodeError.
parse_json(body) ==
    LET d == body.doc
    IN  CASE d = <<"null">> -> Return(None)
          [] d = <<"{", "}">> -> Return(Dict({}))
          [] Len(d) = 5 /\ d[1] = "{" /\ d[3] = ":" /\ d[5] = "}"
                        /\ d[2] \notin {"{", "}", ":"} /\ d[4] \notin {"{", "}", ":"}
               -> Return(Dict({<<d[2], d[4]>>}))
          [] OTHER -> RaiseBuiltin("JSONDecodeError")

\* A loader that hands a Future body to the JSON parser.
RawLoadJsonNoFutureCheck(self, r) ==
    IF ~is_json_request(r) THEN Return(Missing)
    ELSE IF r.body = Future THEN RaiseBuiltin("TypeError")
    ELSE parse_json(r.body)

\* TornadoParser._raw_load_json
_raw_load_json(self, r) ==
    IF ~is_json_request(r) THEN Return(Missing)
    ELSE IF r.body = Future THEN Return(Missing)
    ELSE parse_json(r.body)

Text(s) == [t |-> "text", text |-> s]

\* A handler that reports a malformed body as a validation failure.
HandleInvalidJsonAs422(self, error, r) ==
    Raise(HTTPError(422, Text("Invalid JSON body."), Text("Unprocessable Entity"),
                    [k \in {"json"} |-> <<"Invalid JSON body.">>], None),
          "_handle_invalid_json_error")

\* TornadoParser._handle_invalid_json_error
_handle_invalid_json_error(self, error, r) ==
    Raise(HTTPError(400, Text("Invalid JSON body."), Text("Bad Request"),
                    [k \in {"json"} |-> <<"Invalid JSON body.">>], None),
          "_handle_invalid_json_error")

\* Parser.load_json of webargs.core: a body that does not parse goes to
\* _handle_invalid_json_error.
load_json(self, r, sch) ==
    LET raw == _raw_load_json(self, r)
    IN  IF raw = RaiseBuiltin("JSONDecodeError")
        THEN _handle_invalid_json_error(self, raw, r)
        ELSE raw

(***************************************************************************)
(* TornadoParser.handle_error                                              *)
(***************************************************************************)
\* A marshmallow ValidationError with its per-field messages.
ValidationError(messages) == [t |-> "ValidationError", messages |-> messages]

\* str(error.messages)
StrOf(messages) == [t |-> "str_of", messages |-> messages]

\* bool of None or an int: None and 0 are false.
Falsy(v) == v = None \/ (v.t = "int" /\ v.n = 0)

\* A handler that ignores the caller's status.
HandleErrorDefaultOnly(self, error, r, sch, error_status_code, error_headers) ==
    Raise(HTTPError(self.DEFAULT_VALIDATION_STATUS, StrOf(error.messages),
                    Text("Unprocessable Entity"), error.messages, error_headers),
          "handle_error")

handle_error(self, error, r, sch, error_status_code, error_headers) ==
    LET status_code == IF Falsy(error_status_code)
                       THEN self.DEFAULT_VALIDATION_STATUS
                       ELSE error_status_code.n
        reason == IF status_code = 422 THEN Text("Unprocessable Entity") ELSE None
    IN  Raise(HTTPError(status_code, StrOf(error.messages), reason,
                        error.messages, error_headers),
              "handle_error")

(***************************************************************************)
(* Parser.parse of webargs.core for one location: load the location, look  *)
(* every field of the schema up, hand the values to the schema, and on a   *)
(* validation failure call handle_error.  The schema's verdict is an       *)
(* input.                                                                  *)
(***************************************************************************)
\* The order in which the schema's fields are looked up.
FieldOrder == <<"name", "works">>

\* The lookups of fields[i..], on the mapping the earlier lookups left.
RECURSIVE LoadFields(_, _, _, _)
LoadFields(proxy, fields, i, acc) ==
    IF i > Len(fields) THEN [out |-> Return(Dict(acc)), data |-> proxy.data]
    ELSE LET r == ProxyGetItem(proxy, fields[i])
         IN  IF r.out.t # "return" THEN r
             ELSE LoadFields([proxy EXCEPT !.data = r.data], fields, i + 1,
                             acc \cup {<<fields[i], r.out.value>>})

\* The messages of a failed validation and of an error the application raises.
SchemaMessages == [k \in {"name"} |-> <<"Invalid value.">>]

UserMessages == [k \in {"text"} |-> <<"Invalid user input.">>]

VerdictMessages(verdict) ==
    IF verdict = "user_error" THEN UserMessages ELSE SchemaMessages

parse(self, r, sch, loc, verdict, error_status_code, error_headers) ==
    LET loaded == IF loc = "json"
                  THEN [out |-> load_json(self, r, sch), data |-> None]
                  ELSE LoadFields(Load(loc, r, sch), FieldOrder, 1, {})
    IN  [out |-> IF loaded.out.t # "return" THEN loaded.out
                 ELSE IF verdict = "valid" THEN loaded.out
                 ELSE handle_error(self, ValidationError(VerdictMessages(verdict)),
                                   r, sch, error_status_code, error_headers),
         data |-> loaded.data]

(***************************************************************************)
(* Requests.  tornado.httputil.HTTPServerRequest gives query_arguments,    *)
(* body_arguments and files as mappings from a key to a list of            *)
(* occurrences, headers as a mapping from a name to one str, cookies as a  *)
(* mapping from a name to a Morsel, and body as bytes or a Future.         *)
(***************************************************************************)
\* 41 bytes 0xFF: undecodable, and longer than the preview of the message.
LongInvalid == [i \in 1..(PreviewLimit + 1) |-> 255]

\* The occurrences of query and form arguments: "a", b"b\xc3\xb8" (decodes
\* to two code points), b"\xff", and the long undecodable bytes.
Elements ==
    {Str(<<97>>), Bytes(<<98, 195, 184>>), Bytes(<<255>>), Bytes(LongInvalid)}

\* The occurrences of the files mapping: uploaded files.
FileElements == {HTTPFile("README.rst"), HTTPFile("setup.py")}

SeqsUpTo(S, n) == UNION {[1..k -> S] : k \in 0..n}

\* The values of a list-valued mapping: lists and tuples of occurrences.
RawValuesUpTo(E, n) ==
    {List(xs) : xs \in SeqsUpTo(E, n)} \cup {Tuple(xs) : xs \in SeqsUpTo(E, n)}

\* The values of the headers mapping: one str for the whole header ("Fr"
\* and "a").
HeaderValues == {Str(<<70, 114>>), Str(<<97>>)}

\* The raw occurrences of one entry of a mapping.
Occ(v) == IF v = Absent THEN 0 ELSE IF IsSeq(v) THEN Len(v.items) ELSE 1

RECURSIVE TotalOcc(_, _)
TotalOcc(m, ks) ==
    IF ks = {} THEN 0
    ELSE LET k == CHOOSE x \in ks : TRUE
         IN  Occ(m[k]) + TotalOcc(m, ks \ {k})

MappingsOf(E) ==
    {m \in [Keys -> RawValuesUpTo(E, MaxOcc) \cup {Absent}] :
        TotalOcc(m, Keys) <= MaxOcc}

CookieValues == {Morsel(Str(<<83, 116>>)), Morsel(Str(<<>>))}

CookieMappings == [Keys -> CookieValues \cup {Absent}]

EmptyMapping == [k \in Keys |-> Absent]

\* A Content-Type header value, as its tokens.
CT(tokens) == [t |-> "str", tokens |-> tokens]

\* A request body of bytes, as the tokens of its text.
Body(doc) == [t |-> "bytes", doc |-> doc]

HeaderNames == Keys \cup {"Content-Type"}

Headers(m, ct) == [h \in HeaderNames |-> IF h = "Content-Type" THEN ct ELSE m[h]]

Request(q, f, h, c, fl, body) ==
    [query_arguments |-> q, body_arguments |-> f, headers |-> h, cookies |-> c,
     files |-> fl, body |-> body]

\* A request with no argument anywhere, no Content-Type and an empty body.
EmptyRequest ==
    Request(EmptyMapping, EmptyMapping, Headers(EmptyMapping, Absent),
            EmptyMapping, EmptyMapping, Body(<<>>))

\* The schemas: the field names, and those declared multi-valued.
Schemas == {[fields |-> Keys, multiple |-> mk] : mk \in SUBSET Keys}

\* parser = TornadoParser(): the status of a validation failure is the one
\* attribute handle_error reads.
DEFAULT_VALIDATION_STATUS == 422

TornadoParser == [DEFAULT_VALIDATION_STATUS |-> DEFAULT_VALIDATION_STATUS]

NoResult == [op |-> "none"]

HeaderMappings == [Keys -> HeaderValues \cup {Absent}]

\* Requests that carry arguments in one location.
ProxyRequests ==
    {[EmptyRequest EXCEPT ![Attr(loc)] = m] :
        loc \in {"query", "form"}, m \in MappingsOf(Elements)}
    \cup {[EmptyRequest EXCEPT !.files = m] : m \in MappingsOf(FileElements)}
    \cup {[EmptyRequest EXCEPT !.headers = Headers(m, Absent)] : m \in HeaderMappings}
    \cup {[EmptyRequest EXCEPT !.cookies = m] : m \in CookieMappings}

InitProxy ==
    /\ req \in ProxyRequests
    /\ schema \in Schemas
    /\ parser = TornadoParser
    /\ result = NoResult

(***************************************************************************)
(* Actions.                                                                *)
(***************************************************************************)
\* parser.load_<location>(req, schema)[key]
Lookup(loc, key) ==
    LET proxy == Load(loc, req, schema)
        r     == ProxyGetItem(proxy, key)
    IN  /\ result' = [op |-> "lookup", loc |-> loc, key |-> key, out |-> r.out]
        /\ req' = [req EXCEPT ![Attr(loc)] = r.data]
        /\ UNCHANGED <<schema, parser>>

NextProxy == \E loc \in ProxyLocations, key \in Keys : Lookup(loc, key)

SpecProxy == InitProxy /\ [][NextProxy]_vars

\* The Content-Type headers: none, empty, JSON (plain, with parameters, a
\* vendor type), and three that are not JSON.
ContentTypes ==
    {Absent, CT(<<>>),
     CT(<<"application", "/", "json">>),
     CT(<<"application", "/", "json", ";", "charset=UTF-8">>),
     CT(<<"application", "/", "vnd.api", "+", "json", ";", "charset=UTF-8">>),
     CT(<<"text", "/", "plain">>),
     CT(<<"application", "/", "x-www-form-urlencoded">>),
     CT(<<"text", "/", "plain", ";", "json">>)}

\* The bodies: three JSON documents, a truncated one, a form body, a Future.
Bodies ==
    {Body(<<"{", "name", ":", "Steve", "}">>), Body(<<"null">>), Body(<<"{", "}">>),
     Body(<<"{", "name">>), Body(<<"name", "=", "b">>), Future}

JsonRequests ==
    {[EmptyRequest EXCEPT !.headers = Headers(EmptyMapping, ct), !.body = b] :
        ct \in ContentTypes, b \in Bodies}

InitJson ==
    /\ req \in JsonRequests
    /\ schema \in Schemas
    /\ parser = TornadoParser
    /\ result = NoResult

\* parser._raw_load_json(req)
RawLoadJson ==
    /\ result' = [op |-> "_raw_load_json", out |-> _raw_load_json(parser, req)]
    /\ UNCHANGED <<req, schema, parser>>

\* parser.load_json(req, schema)
LoadJson ==
    /\ result' = [op |-> "load_json", out |-> load_json(parser, req, schema)]
    /\ UNCHANGED <<req, schema, parser>>

\* The status and the headers a caller of parse may give.
StatusCodes == {None, Int_(400), Int_(422), Int_(500)}

ErrorHeaders == {None, [t |-> "headers", names |-> {"X-Error"}]}

\* parser.parse(schema, req, location=loc, error_status_code=...,
\* error_headers=...), with the verdict of the schema.
Parse(loc, verdict, error_status_code, error_headers) ==
    LET r == parse(parser, req, schema, loc, verdict, error_status_code, error_headers)
    IN  /\ result' = [op |-> "parse", loc |-> loc, verdict |-> verdict,
                      error_status_code |-> error_status_code,
                      error_headers |-> error_headers, out |-> r.out]
        /\ req' = IF loc = "json" THEN req ELSE [req EXCEPT ![Attr(loc)] = r.data]
        /\ UNCHANGED <<schema, parser>>

\* parser.handle_error(error, req, schema, error_status_code=...,
\* error_headers=...)
HandleError(messages, error_status_code, error_headers) ==
    /\ result' = [op |-> "handle_error", messages |-> messages,
                  error_status_code |-> error_status_code,
                  error_headers |-> error_headers,
                  out |-> handle_error(parser, ValidationError(messages), req,
                                       schema, error_status_code, error_headers)]
    /\ UNCHANGED <<req, schema, parser>>

NextJson ==
    \/ RawLoadJson
    \/ LoadJson
    \/ \E v \in {"valid", "invalid"}, c \in StatusCodes :
          Parse("json", v, c, None)

SpecJson == InitJson /\ [][NextJson]_vars

(***************************************************************************)
(* The whole adapter on the requests of the test suite's scenarios: one    *)
(* occurrence, two occurrences with the second undecodable, an undecodable *)
(* one, an upload, headers, cookies, and JSON requests.                    *)
(***************************************************************************)
ScenarioMappings ==
    {[EmptyMapping EXCEPT !["name"] = v] :
        v \in {List(<<Bytes(<<98, 195, 184>>)>>),
               List(<<Bytes(<<98, 195, 184>>), Bytes(<<255>>)>>),
               List(<<Bytes(<<255>>)>>)}}

ScenarioFileMappings ==
    {[EmptyMapping EXCEPT !["name"] = List(<<HTTPFile("README.rst")>>)]}

ScenarioHeaderMappings ==
    {[EmptyMapping EXCEPT !["name"] = v] : v \in HeaderValues}

ScenarioCookieMappings ==
    {[EmptyMapping EXCEPT !["name"] = v] : v \in CookieValues}

ScenarioJsonRequests ==
    {[EmptyRequest EXCEPT !.headers = Headers(EmptyMapping, ct), !.body = b] :
        ct \in {Absent, CT(<<"application", "/", "json">>), CT(<<"text", "/", "plain">>)},
        b \in {Body(<<"{", "name", ":", "Steve", "}">>), Body(<<"{", "name">>), Future}}

ScenarioRequests ==
    {[EmptyRequest EXCEPT ![Attr(loc)] = m] :
        loc \in {"query", "form"}, m \in ScenarioMappings}
    \cup {[EmptyRequest EXCEPT !.files = m] : m \in ScenarioFileMappings}
    \cup {[EmptyRequest EXCEPT !.headers = Headers(m, Absent)] :
            m \in ScenarioHeaderMappings}
    \cup {[EmptyRequest EXCEPT !.cookies = m] : m \in ScenarioCookieMappings}
    \cup ScenarioJsonRequests

Init ==
    /\ req \in ScenarioRequests
    /\ schema \in Schemas
    /\ parser = TornadoParser
    /\ result = NoResult

Locations == ProxyLocations \cup {"json"}

Next ==
    \/ \E loc \in ProxyLocations, key \in Keys : Lookup(loc, key)
    \/ RawLoadJson
    \/ LoadJson
    \/ \E loc \in Locations, v \in {"valid", "invalid", "user_error"},
          c \in {None, Int_(400)}, h \in ErrorHeaders : Parse(loc, v, c, h)
    \/ \E m \in {SchemaMessages, UserMessages}, c \in StatusCodes,
          h \in ErrorHeaders : HandleError(m, c, h)

Spec == Init /\ [][Next]_vars

(***************************************************************************)
(* Properties.                                                             *)
(***************************************************************************)
\* The raw value the mapping of a location holds for a key, or Missing.
RawAt(loc, key) == Get(req[Attr(loc)], key, Missing)

\* The raw occurrences of a present key: the items of a list or tuple, and a
\* value that is no sequence as its one occurrence.
Occurrences(raw) == IF IsSeq(raw) THEN raw.items ELSE <<raw>>

\* A value as text: bytes decoded, anything else as it is.
DecodedText(v) == IF v.t = "bytes" THEN Str(Utf8Decode(v.bytes).chars) ELSE v

IsGenericLookup == result.op = "lookup" /\ result.loc # "cookies"

\* C1: for a key declared multi-valued, a lookup through
\* WebArgsTornadoMultiDictProxy (query, form, headers, files) returns MISSING
\* when the key is absent, and for N >= 1 decodable raw occurrences returns the
\* list of exactly those N occurrences, each decoded to text, in their order.
C1_MultiYieldsOneValuePerOccurrence ==
    (IsGenericLookup /\ result.key \in schema.multiple) =>
        LET raw == RawAt(result.loc, result.key)
            occ == Occurrences(raw)
        IN  /\ raw = Missing => result.out = Return(Missing)
            /\ (/\ raw # Missing
                /\ Len(occ) >= 1
                /\ \A i \in 1..Len(occ) : ~Undecodable(occ[i]))
               => result.out = Return(List([i \in 1..Len(occ) |-> DecodedText(occ[i])]))

\* C2: for a key not declared multi-valued whose raw value is a list or tuple
\* of one or more occurrences, the lookup returns the first occurrence alone,
\* decoded to text when it is bytes (a first occurrence that cannot be decoded
\* raises the status-400 error instead); later occurrences play no part.
C2_ScalarTakesFirstOccurrence ==
    (/\ IsGenericLookup
     /\ result.key \notin schema.multiple
     /\ IsSeq(RawAt(result.loc, result.key))
     /\ Len(RawAt(result.loc, result.key).items) >= 1) =>
        LET first == RawAt(result.loc, result.key).items[1]
        IN  IF Undecodable(first)
            THEN result.out.t = "raise" /\ result.out.exc.status_code = 400
            ELSE result.out = Return(DecodedText(first))

\* C2's case: two occurrences, the first b"b\xc3\xb8" and the second
\* undecodable, and the lookup returned the text of the first.
C2_Witness ==
    /\ IsGenericLookup
    /\ result.key \notin schema.multiple
    /\ IsSeq(RawAt(result.loc, result.key))
    /\ Len(RawAt(result.loc, result.key).items) = 2
    /\ RawAt(result.loc, result.key).items[1] = Bytes(<<98, 195, 184>>)
    /\ Undecodable(RawAt(result.loc, result.key).items[2])
    /\ result.out = Return(Str(<<98, 248>>))

\* Whether the lookup of a present raw value decodes an undecodable bytes
\* value: any element in the multi-valued branch, the first occurrence (or
\* the value itself) in the scalar branch.
MeetsUndecodable(raw, multi) ==
    IF multi THEN \E i \in 1..Len(Iter(raw)) : Undecodable(Iter(raw)[i])
    ELSE IF IsSeq(raw) /\ raw.items # <<>> THEN Undecodable(raw.items[1])
    ELSE Undecodable(raw)

\* The bytes and characters of request content a preview holds.
RECURSIVE EchoedUnits(_)
EchoedUnits(v) ==
    CASE v.t = "bytes" -> Len(v.bytes)
      [] v.t = "str"   -> Len(v.chars)
      [] IsSeq(v)      -> IF v.items = <<>> THEN 0
                          ELSE EchoedUnits(v.items[1])
                               + EchoedUnits([v EXCEPT !.items = Tail(@)])
      [] OTHER         -> 0

\* C6: whenever a lookup meets bytes that cannot be decoded, in the
\* multi-valued branch as in the scalar branch, it raises a status-400 error
\* whose message names the key and holds a preview of at most 40 units of
\* request content, whatever the size of the raw value.
C6_DecodeErrorPreviewBounded ==
    (/\ IsGenericLookup
     /\ RawAt(result.loc, result.key) # Missing
     /\ MeetsUndecodable(RawAt(result.loc, result.key),
                         result.key \in schema.multiple)) =>
        /\ result.out.t = "raise"
        /\ result.out.exc.status_code = 400
        /\ result.out.exc.log_message.t = "invalid_unicode"
        /\ result.out.exc.log_message.key = result.key
        /\ EchoedUnits(result.out.exc.log_message.preview) <= PreviewLimit

\* C8: a lookup through WebArgsTornadoCookiesMultiDictProxy returns MISSING
\* for an absent cookie, and otherwise the cookie's value attribute unchanged,
\* as a scalar for a key not declared multi-valued and as a one-element list
\* for a key declared multi-valued; it never raises.
C8_CookieValueUnwrapped ==
    (result.op = "lookup" /\ result.loc = "cookies") =>
        LET cookie == RawAt("cookies", result.key)
        IN  IF cookie = Missing THEN result.out = Return(Missing)
            ELSE IF result.key \in schema.multiple
            THEN result.out = Return(List(<<cookie.value>>))
            ELSE result.out = Return(cookie.value)

\* C8's case: a present cookie looked up under a multi-valued key.
C8_Witness ==
    /\ result.op = "lookup" /\ result.loc = "cookies"
    /\ result.key \in schema.multiple
    /\ RawAt("cookies", result.key) = Morsel(Str(<<83, 116>>))
    /\ result.out = Return(List(<<Str(<<83, 116>>)>>))

\* C10: for a key not declared multi-valued whose raw value is an empty list
\* or tuple, the lookup returns that empty sequence itself: not MISSING, no
\* indexing, no exception.
C10_EmptySequenceReturnedAsIs ==
    (/\ IsGenericLookup
     /\ result.key \notin schema.multiple
     /\ IsSeq(RawAt(result.loc, result.key))
     /\ RawAt(result.loc, result.key).items = <<>>) =>
        result.out = Return(RawAt(result.loc, result.key))

\* C10's case: an empty tuple under a key not declared multi-valued.
C10_Witness ==
    /\ IsGenericLookup
    /\ result.key \notin schema.multiple
    /\ RawAt(result.loc, result.key) = Tuple(<<>>)
    /\ result.out = Return(Tuple(<<>>))

\* The Content-Type header of the request, or Absent.
ContentType == Get(req.headers, "Content-Type", Absent)

\* The header is present and names a JSON media type.
JsonContentType == ContentType # Absent /\ is_json(ContentType)

\* C3: _raw_load_json returns MISSING, without parsing and without raising,
\* when the Content-Type header is absent or no JSON media type (whatever the
\* body), and when the content type is JSON but the body is a pending Future;
\* it parses the body exactly when the type is JSON and the body available.
C3_RawLoadJsonMissingUnlessJsonAndAvailable ==
    result.op = "_raw_load_json" =>
        IF JsonContentType /\ req.body # Future
        THEN result.out = parse_json(req.body)
        ELSE result.out = Return(Missing)

\* C3's case: a JSON content type with a body that is still a Future.
C3_Witness ==
    /\ result.op = "_raw_load_json"
    /\ JsonContentType
    /\ req.body = Future
    /\ result.out = Return(Missing)

\* The request declares JSON and its available body does not parse.
MalformedJsonBody ==
    /\ JsonContentType
    /\ req.body # Future
    /\ parse_json(req.body).t # "return"

\* C4: with a JSON content type and an available body that does not parse,
\* loading or parsing the json location ends in an error of status 400 with
\* messages exactly {"json": ["Invalid JSON body."]}: never MISSING, never
\* the validation status 422, never the caller's error_status_code.
C4_MalformedJsonIs400 ==
    (/\ result.op \in {"load_json", "parse"}
     /\ result.op = "parse" => result.loc = "json"
     /\ MalformedJsonBody) =>
        /\ result.out.t = "raise"
        /\ result.out.exc.status_code = 400
        /\ result.out.exc.messages = [k \in {"json"} |-> <<"Invalid JSON body.">>]

\* C4's case: a parse of a truncated JSON body under a caller's status 500.
C4_Witness ==
    /\ result.op = "parse" /\ result.loc = "json"
    /\ result.error_status_code = Int_(500)
    /\ result.verdict = "invalid"
    /\ MalformedJsonBody
    /\ result.out.t = "raise"
    /\ result.out.exc.status_code = 400

C7_AllErrorsThroughHandleError ==
    (result.op = "parse" /\ result.out.t # "return") =>
        /\ result.out.t = "raise"
        /\ result.out.via = "handle_error"
        /\ DOMAIN result.out.exc.messages # {}

\* What repeating the call recorded in res yields on parser p, request r and
\* schema sch.
Replay(res, p, r, sch) ==
    CASE res.op = "lookup" -> ProxyGetItem(Load(res.loc, r, sch), res.key).out
      [] res.op = "_raw_load_json" -> _raw_load_json(p, r)
      [] res.op = "load_json" -> load_json(p, r, sch)
      [] res.op = "parse" ->
            parse(p, r, sch, res.loc, res.verdict, res.error_status_code,
                  res.error_headers).out
      [] res.op = "handle_error" ->
            handle_error(p, ValidationError(res.messages), r, sch,
                         res.error_status_code, res.error_headers)

\* C9: no operation changes the request's raw mappings, the schema's
\* multi-valued keys or the parser, and repeating the operation on the request
\* as the operation left it yields the same value, MISSING or error.
C9_NothingMutated ==
    [][/\ req' = req
       /\ schema' = schema
       /\ parser' = parser
       /\ Replay(result', parser', req', schema') = result'.out]_vars

\* C9's case: a parse of the query location has taken the first of two
\* occurrences, and both are still in the request.
C9_Witness ==
    /\ result.op = "parse" /\ result.loc = "query"
    /\ result.out.t = "return"
    /\ req.query_arguments["name"] =
          List(<<Bytes(<<98, 195, 184>>), Bytes(<<255>>)>>)

====
